---- MODULE Spec2Model ----
(***************************************************************************)
(* A model of visit_struct_intrusive.hpp.                                  *)
(*                                                                         *)
(* Two phases of one translation unit are modelled.                        *)
(*  - The definition of a struct S, read member declaration by member      *)
(*    declaration: BEGIN_VISITABLES, VISITABLE, END_VISITABLES and the     *)
(*    closing brace.  The state is what the compiler knows of S so far:    *)
(*    its data members, the overload set of Visit_Struct_Get_Visitables__, *)
(*    and the typedefs the macros introduce.  An ill-formed declaration    *)
(*    ends the definition in the state "failed" with a diagnostic.         *)
(*  - A visit of an instance of S, or of a struct D : S {} that adds       *)
(*    nothing, through traits::visitable<T>::apply: one step per visitor   *)
(*    call and one per visitor return.                                     *)
(***************************************************************************)
EXTENDS Integers, Sequences, FiniteSets, TLC

\* detail::maxVisitableRank
maxVisitableRank == 200

\* Bounds of the model: the identifiers a record may use as field names, and
\* the values a field may hold.
NumNames == 2
MaxValue == 1

Names == 1..NumNames
Values == 0..MaxValue
FieldTypes == {"int", "bool"}
None == "none"

\* Value categories of the instance handed to apply.
Categories == {"lvalue", "const lvalue", "rvalue", "const rvalue"}

\* The types of the translation unit: the record S and D, derived from S.
Types == {"S", "D"}

VARIABLES
  status,        \* "body": inside the braces of S; "complete"; "failed"
  diag,          \* the diagnostic that ended the definition, or None
  current_type,  \* typedef VISIT_STRUCT_CURRENT_TYPE is declared
  overloads,     \* declared overloads of Visit_Struct_Get_Visitables__
  fields,        \* the data members of S, in declaration order
  member_records,\* the nested structs Visit_Struct_Member_Record__NAME, by NAME
  list_declared, \* typedef Visit_Struct_Registered_Members_List__ is declared
  members_list,  \* the type it names (TypeList<> until it is declared)
  tag,           \* typedef Visit_Struct_Visitable_Structure_Tag__ is declared
  end_pos,       \* number of data members that precede END_VISITABLES, or -1
  derived,       \* struct D : S {} is defined
  vpc,           \* "idle", "visiting", "in_visitor", "done"
  vtype,         \* the type whose instance is being visited
  vcat,          \* the value category of that instance
  inst,          \* the instance: the value of each data member, by position
  idx,           \* pack elements already expanded by structure_helper
  log            \* the visitor's invocations so far

vars == <<status, diag, current_type, overloads, fields, member_records, list_declared,
          members_list, tag, end_pos, derived, vpc, vtype, vcat, inst, idx, log>>

defvars == <<status, diag, current_type, overloads, fields, member_records, list_declared,
             members_list, tag, end_pos>>
visitvars == <<vpc, vtype, vcat, inst, idx, log>>

----------------------------------------------------------------------------
(* detail::TypeList, Append_t, Rank *)

TypeList == << >>

TypeList_size(L) == Len(L)

\* Append_t putting the new element first.
Append_t_Prepend(L, T) == <<T>> \o L

Append_t(L, T) == L \o <<T>>

\* Rank<N> derives from Rank<N - 1>, and Rank<0> from nothing: Rank<to> is
\* Rank<from> or one of its bases, so that an argument of type Rank<from>
\* converts to a parameter of type Rank<to>.
RankConvertible(from, to) == 0 <= to /\ to <= from

----------------------------------------------------------------------------
(* The macros *)

\* The ranks some overload of Visit_Struct_Get_Visitables__ takes.
DeclaredRanks == {o.rank : o \in overloads}

\* Overload resolution of the call Visit_Struct_Get_Visitables__(Rank<r>{}):
\* the overloads whose parameter is the most derived class the argument
\* converts to; none when the argument converts to no overload's parameter.
Resolve(r) ==
  LET ranks == DeclaredRanks
      best  == {m \in ranks : /\ RankConvertible(r, m)
                               /\ \A k \in (m + 1)..r : k \notin ranks}
  IN  {o \in overloads : o.rank \in best}

\* VISIT_STRUCT_GET_REGISTERED_MEMBERS
GetRegisteredMembers == (CHOOSE o \in Resolve(maxVisitableRank) : TRUE).ret

\* The position in the object of the data member that &S::NAME names.
MemberPtr(fs, NAME) == CHOOSE i \in 1..Len(fs) : fs[i].name = NAME

\* A record in which no identifier counts as declared yet.
MemberDeclared_Never(NAME) == FALSE

MemberDeclared(NAME) == \E i \in 1..Len(fields) : fields[i].name = NAME

\* struct Visit_Struct_Member_Record__NAME.  A TypeList names the struct by
\* NAME.
MakeMemberRecord(TYPE, NAME, fs) ==
  [member_name |-> NAME, T |-> TYPE, member_ptr |-> MemberPtr(fs, NAME)]

Fail(d) ==
  /\ status' = "failed"
  /\ diag' = d
  /\ UNCHANGED <<current_type, overloads, fields, member_records, list_declared,
                 members_list, tag, end_pos>>

\* BEGIN_VISITABLES without the overload for Rank<0>.
BeginVisitables_NoRank0 ==
  /\ status = "body"
  /\ IF current_type
       THEN Fail("redeclaration of typedef VISIT_STRUCT_CURRENT_TYPE")
       ELSE /\ current_type' = TRUE
            /\ UNCHANGED <<status, diag, overloads, fields, member_records, list_declared,
                           members_list, tag, end_pos>>
  /\ UNCHANGED <<derived, vpc, vtype, vcat, inst, idx, log>>

BeginVisitables ==
  /\ status = "body"
  /\ IF current_type
       THEN Fail("redeclaration of typedef VISIT_STRUCT_CURRENT_TYPE")
       ELSE /\ current_type' = TRUE
            /\ overloads' = overloads \cup {[rank |-> 0, ret |-> TypeList]}
            /\ UNCHANGED <<status, diag, fields, member_records, list_declared,
                           members_list, tag, end_pos>>
  /\ UNCHANGED <<derived, vpc, vtype, vcat, inst, idx, log>>

Visitable(TYPE, NAME) ==
  /\ status = "body"
  /\ IF MemberDeclared(NAME)
       THEN Fail("redeclaration of data member")
     ELSE IF ~current_type
       THEN Fail("VISIT_STRUCT_CURRENT_TYPE was not declared")
     ELSE IF Resolve(maxVisitableRank) = {}
       THEN Fail("no matching function Visit_Struct_Get_Visitables__")
     ELSE LET cur == GetRegisteredMembers
              fs  == Append(fields, [name |-> NAME, type |-> TYPE])
              new == [rank |-> TypeList_size(cur) + 1, ret |-> Append_t(cur, NAME)]
          IN  IF \E o \in overloads : o.rank = new.rank
                THEN Fail("Visit_Struct_Get_Visitables__ cannot be overloaded")
                ELSE /\ fields' = fs
                     /\ member_records' =
                          [n \in DOMAIN member_records \cup {NAME} |->
                             IF n = NAME THEN MakeMemberRecord(TYPE, NAME, fs)
                                         ELSE member_records[n]]
                     /\ overloads' = overloads \cup {new}
                     /\ UNCHANGED <<status, diag, current_type, list_declared,
                                    members_list, tag, end_pos>>
  /\ UNCHANGED <<derived, vpc, vtype, vcat, inst, idx, log>>

\* END_VISITABLES naming the list anew each time it is used.
EndVisitables_Recapture ==
  /\ status = "body"
  /\ IF Resolve(maxVisitableRank) = {}
       THEN Fail("no matching function Visit_Struct_Get_Visitables__")
       ELSE /\ list_declared' = TRUE
            /\ members_list' = GetRegisteredMembers
            /\ tag' = TRUE
            /\ end_pos' = Len(fields)
            /\ UNCHANGED <<status, diag, current_type, overloads, fields, member_records>>
  /\ UNCHANGED <<derived, vpc, vtype, vcat, inst, idx, log>>

EndVisitables ==
  /\ status = "body"
  /\ IF Resolve(maxVisitableRank) = {}
       THEN Fail("no matching function Visit_Struct_Get_Visitables__")
     ELSE IF list_declared \/ tag
       THEN Fail("redeclaration of typedef Visit_Struct_Registered_Members_List__")
     ELSE /\ list_declared' = TRUE
          /\ members_list' = GetRegisteredMembers
          /\ tag' = TRUE
          /\ end_pos' = Len(fields)
          /\ UNCHANGED <<status, diag, current_type, overloads, fields, member_records>>
  /\ UNCHANGED <<derived, vpc, vtype, vcat, inst, idx, log>>

\* The closing brace of S: the class is complete.
CloseStruct ==
  /\ status = "body"
  /\ status' = "complete"
  /\ UNCHANGED <<diag, current_type, overloads, fields, member_records, list_declared,
                 members_list, tag, end_pos>>
  /\ UNCHANGED <<derived, vpc, vtype, vcat, inst, idx, log>>

\* struct D : S {};
DefineDerived ==
  /\ status = "complete"
  /\ ~derived
  /\ derived' = TRUE
  /\ UNCHANGED defvars
  /\ UNCHANGED visitvars

----------------------------------------------------------------------------
(* traits::visitable *)

Defined(T) == IF T = "S" THEN status = "complete" ELSE derived

Base(T) == IF T = "D" THEN "S" ELSE None

\* Qualified lookup of T::Visit_Struct_Visitable_Structure_Tag__: the
\* members of T, then those of its base classes.
RECURSIVE HasTagMember(_)
HasTagMember(T) ==
  \/ T = "S" /\ tag
  \/ Base(T) /= None /\ HasTagMember(Base(T))

\* The primary template traits::visitable<T, void> of visit_struct.hpp.
primary_visitable_value == FALSE

\* traits::visitable<T>::value
visitable_value(T) ==
  IF Defined(T) /\ HasTagMember(T) THEN TRUE ELSE primary_visitable_value

\* T::Visit_Struct_Registered_Members_List__, found like the tag.
RegisteredMembersList(T) == members_list

----------------------------------------------------------------------------
(* The visit *)

\* Template argument deduction of S in apply(V && v, S && s).
DeduceS(cat) ==
  CASE cat = "lvalue"       -> "S&"
    [] cat = "const lvalue" -> "const S&"
    [] cat = "rvalue"       -> "S"
    [] cat = "const rvalue" -> "const S"

\* The parameter used by its name, without std::forward: always an lvalue.
Forward_AsLvalue(S) ==
  CASE S = "S&"       -> "lvalue"
    [] S = "const S&" -> "const lvalue"
    [] S = "S"        -> "lvalue"
    [] S = "const S"  -> "const lvalue"

\* std::forward<S>(structure_instance)
Forward(S) ==
  CASE S = "S&"       -> "lvalue"
    [] S = "const S&" -> "const lvalue"
    [] S = "S"        -> "rvalue"
    [] S = "const S"  -> "const rvalue"

\* An accessor returning a reference to a copy of the member (location 0:
\* no member of the instance).
member_ptr_helper_apply_Copy(M, cat) ==
  [loc  |-> 0,
   kind |-> CASE cat = "lvalue"       -> "T&"
              [] cat = "const lvalue" -> "const T&"
              [] cat = "rvalue"       -> "T&&"
              [] cat = "const rvalue" -> "const T&"]

\* member_ptr_helper::apply: the overload chosen for the argument, and the
\* reference it returns: which object it refers to and of what kind.
member_ptr_helper_apply(M, cat) ==
  [loc  |-> M.member_ptr,
   kind |-> CASE cat = "lvalue"       -> "T&"
              [] cat = "const lvalue" -> "const T&"
              [] cat = "rvalue"       -> "T&&"
              [] cat = "const rvalue" -> "const T&"]

\* traits::visitable<T>::apply, entered with a fresh instance s0.
apply(T, cat, s0) ==
  /\ vpc = "idle"
  /\ visitable_value(T)
  /\ vpc' = "visiting"
  /\ vtype' = T
  /\ vcat' = cat
  /\ inst' = s0
  /\ idx' = 0
  /\ log' = << >>
  /\ UNCHANGED defvars
  /\ UNCHANGED derived

\* member_helper<Ms[idx+1]>::apply_visitor: the visitor is called.
CallVisitor ==
  /\ vpc = "visiting"
  /\ idx < Len(RegisteredMembersList(vtype))
  /\ LET M   == member_records[RegisteredMembersList(vtype)[idx + 1]]
         ref == member_ptr_helper_apply(M, Forward(DeduceS(vcat)))
     IN  log' = Append(log, [name |-> M.member_name, loc |-> ref.loc,
                             kind |-> ref.kind, wrote |-> << >>])
  /\ vpc' = "in_visitor"
  /\ UNCHANGED <<vtype, vcat, inst, idx>>
  /\ UNCHANGED defvars
  /\ UNCHANGED derived

\* What a visitor does with the reference it is given: nothing (<< >>), or
\* assign a value v through it (<<v>>).
Writes == {<< >>} \cup {<<v>> : v \in Values}

\* The visitor returns, having done w with its reference.
VisitorReturn(w) ==
  /\ vpc = "in_visitor"
  /\ LET call == log[Len(log)]
     IN  IF w = << >>
           THEN UNCHANGED <<inst, log>>
           ELSE /\ call.kind \in {"T&", "T&&"}
                /\ inst' = IF call.loc \in DOMAIN inst
                             THEN [inst EXCEPT ![call.loc] = w[1]]
                             ELSE inst
                /\ log' = [log EXCEPT ![Len(log)].wrote = w]
  /\ idx' = idx + 1
  /\ vpc' = "visiting"
  /\ UNCHANGED <<vtype, vcat>>
  /\ UNCHANGED defvars
  /\ UNCHANGED derived

\* structure_helper::apply_visitor returns: the pack is exhausted.
FinishVisit ==
  /\ vpc = "visiting"
  /\ idx = Len(RegisteredMembersList(vtype))
  /\ vpc' = "done"
  /\ UNCHANGED <<vtype, vcat, inst, idx, log>>
  /\ UNCHANGED defvars
  /\ UNCHANGED derived

----------------------------------------------------------------------------
(* Specifications *)

Init ==
  /\ status = "body"
  /\ diag = None
  /\ current_type = FALSE
  /\ overloads = {}
  /\ fields = << >>
  /\ member_records = << >>
  /\ list_declared = FALSE
  /\ members_list = TypeList
  /\ tag = FALSE
  /\ end_pos = -1
  /\ derived = FALSE
  /\ vpc = "idle"
  /\ vtype = None
  /\ vcat = None
  /\ inst = << >>
  /\ idx = 0
  /\ log = << >>

\* Records over a few field names, and one visit of an instance of S or D, in
\* any value category and with any initial content, the visitor assigning
\* through the reference it is given or not.
Next ==
  \/ BeginVisitables
  \/ \E TYPE \in FieldTypes, NAME \in Names : Visitable(TYPE, NAME)
  \/ EndVisitables
  \/ CloseStruct
  \/ DefineDerived
  \/ \E T \in Types, cat \in Categories, s0 \in [1..Len(fields) -> Values] :
       apply(T, cat, s0)
  \/ CallVisitor
  \/ \E w \in Writes : VisitorReturn(w)
  \/ FinishVisit

Spec == Init /\ [][Next]_vars

\* Records of up to maxVisitableRank + 2 fields with fresh names f1, f2, ...,
\* all declared before END_VISITABLES; the long ones are visited.
MaxRankDecls == maxVisitableRank + 2
RankVisitFrom == maxVisitableRank - 1

NextRank ==
  \/ BeginVisitables
  \/ /\ Len(fields) < MaxRankDecls
     /\ ~list_declared
     /\ Visitable("int", Len(fields) + 1)
  \/ EndVisitables
  \/ CloseStruct
  \/ /\ Len(fields) >= RankVisitFrom
     /\ apply("S", "lvalue", [i \in 1..Len(fields) |-> 0])
  \/ CallVisitor
  \/ VisitorReturn(<< >>)
  \/ FinishVisit

SpecRank == Init /\ [][NextRank]_vars

----------------------------------------------------------------------------
(* Properties *)

\* The data member of S that the identifier NAME denotes: its position.
FieldPos(NAME) == CHOOSE p \in 1..Len(fields) : fields[p].name = NAME

\* The descriptor of the i-th data member of S.
DescriptorOf(i) ==
  [member_name |-> fields[i].name, T |-> fields[i].type, member_ptr |-> i]

\* C1: a visit of an instance of S invokes the visitor once for each field
\* declared between BEGIN_VISITABLES and END_VISITABLES, in declaration
\* order, with that field's name and a reference to that field; no field is
\* skipped, visited twice or synthesized.
C1_VisitsEveryDeclaredField ==
  (vpc = "done" /\ vtype = "S") =>
     /\ Len(log) = end_pos
     /\ \A i \in 1..Len(log) : log[i].name = fields[i].name /\ log[i].loc = i

\* C2: at every point of the definition after BEGIN_VISITABLES, the
\* current-registry query yields exactly the descriptors of the VISITABLE
\* declarations made so far, in declaration order.
C2_QuerySeesAllDeclarations ==
  (status = "body" /\ current_type) =>
     /\ Resolve(maxVisitableRank) /= {}
     /\ GetRegisteredMembers = [i \in 1..Len(fields) |-> fields[i].name]
     /\ \A i \in 1..Len(fields) : member_records[fields[i].name] = DescriptorOf(i)

\* C3: a definition with more than maxVisitableRank VISITABLE declarations
\* never ends with a closed registry: it is rejected.
C3_TooManyFieldsRejected ==
  Len(fields) > maxVisitableRank => ~(list_declared /\ status = "complete")

\* The type itself went through BEGIN_VISITABLES ... END_VISITABLES.
CompletedRegistration(T) == T = "S" /\ end_pos >= 0

\* C4: a type is reported visitable if and only if that type itself
\* completed the registration.
C4_VisitableIffRegistered ==
  \A T \in Types : Defined(T) => (visitable_value(T) <=> CompletedRegistration(T))

\* The kind of reference a visitor is to receive for an instance of the
\* given value category.
ExpectedKind(cat) ==
  CASE cat = "lvalue"       -> "T&"
    [] cat = "rvalue"       -> "T&&"
    [] cat = "const lvalue" -> "const T&"
    [] cat = "const rvalue" -> "const T&"

\* C5: every visitor call of a visit receives a reference of the kind that
\* the value category of the visited instance calls for: read-only for a
\* read-only instance, mutable for a mutable one, rvalue for an rvalue,
\* from the first field to the last, whatever earlier calls did.
C5_ForwardsValueCategory ==
  \A k \in 1..Len(log) : log[k].kind = ExpectedKind(vcat)

C5_Witness ==
  /\ vpc = "done"
  /\ vcat = "rvalue"
  /\ Len(log) >= 2
  /\ log[1].wrote /= << >>

\* C6: in a mutable visit, a value written through the reference handed
\* over for a field is what a direct read of that field returns from then
\* on, and the write leaves every other field as it was.
C6_WritesAreVisible ==
  vcat = "lvalue" =>
    \A k \in 1..Len(log) :
      log[k].wrote /= << >> => inst[FieldPos(log[k].name)] = log[k].wrote[1]

C6_WritesAreFramed ==
  (vpc = "in_visitor" /\ vcat = "lvalue") =>
    \A q \in DOMAIN inst : q /= FieldPos(log[Len(log)].name) => inst'[q] = inst[q]

C6_ReferenceIsAlias == []C6_WritesAreVisible /\ [][C6_WritesAreFramed]_vars

C6_Witness ==
  /\ vpc = "done"
  /\ vcat = "lvalue"
  /\ Len(log) >= 2
  /\ log[1].wrote = <<1>>
  /\ log[2].wrote = <<0>>
  /\ inst[FieldPos(log[1].name)] = 1

\* C7: BEGIN_VISITABLES immediately followed by END_VISITABLES is accepted;
\* the registry it closes is empty, the record is visitable, and a visit
\* calls the visitor zero times and returns.
C7_EmptyIsAccepted ==
  (status = "body" /\ current_type /\ fields = << >> /\ ~list_declared /\ EndVisitables)
    => (status' = "body" /\ list_declared' /\ tag')

C7_EmptyIsVisitable ==
  (list_declared /\ fields = << >>) =>
     /\ TypeList_size(members_list) = 0
     /\ status = "complete" => visitable_value("S")
     /\ vpc /= "idle" =>
          /\ log = << >>
          /\ vpc \in {"visiting", "done"}
          /\ vpc = "visiting" => ENABLED FinishVisit

C7_EmptyRecord == []C7_EmptyIsVisitable /\ [][C7_EmptyIsAccepted]_vars

C7_Witness ==
  /\ vpc = "done"
  /\ fields = << >>
  /\ end_pos = 0
  /\ log = << >>

\* A VISITABLE whose NAME the record already declares.
DuplicateVisitable ==
  \E TYPE \in FieldTypes, NAME \in Names : MemberDeclared(NAME) /\ Visitable(TYPE, NAME)

\* C8 as stated: a VISITABLE that repeats a field name is accepted and adds a
\* second descriptor.
C8_DuplicateNameAccepted ==
  [][DuplicateVisitable => (status' = "body" /\ Len(fields') = Len(fields) + 1)]_vars

PairwiseDistinct(names) ==
  \A i, j \in 1..Len(names) : i /= j => names[i] /= names[j]

C8_NamesAreDistinct ==
  /\ PairwiseDistinct([i \in 1..Len(fields) |-> fields[i].name])
  /\ PairwiseDistinct(members_list)
  /\ \A o \in overloads : PairwiseDistinct(o.ret)

\* C8, amended: a VISITABLE that repeats a field name of the record ends the
\* definition in failure and declares nothing, so that the descriptors of
\* every registry, closed or not, have pairwise distinct names.
C8_DuplicateNameRejected ==
  /\ []C8_NamesAreDistinct
  /\ [][DuplicateVisitable =>
          (status' = "failed" /\ fields' = fields /\ overloads' = overloads)]_vars

C8_Witness ==
  /\ status = "failed"
  /\ diag = "redeclaration of data member"
  /\ Len(fields) >= 2

\* C9: a second BEGIN_VISITABLES or END_VISITABLES ends the definition in
\* failure, and once END_VISITABLES has closed the registry no later
\* declaration changes it: a further VISITABLE adds a data member, not an
\* element of the closed registry.
C9_Step ==
  /\ (current_type /\ BeginVisitables) => status' = "failed"
  /\ list_declared =>
       /\ EndVisitables => status' = "failed"
       /\ list_declared'
       /\ members_list' = members_list
       /\ tag' = tag
       /\ end_pos' = end_pos

C9_ClosedRegistryIsFinal == [][C9_Step]_vars

C9_Witness ==
  /\ status = "failed"
  /\ diag = "redeclaration of typedef Visit_Struct_Registered_Members_List__"
  /\ end_pos >= 1
  /\ Len(fields) > end_pos
  /\ Len(members_list) = end_pos

\* C10: the ranks at which Visit_Struct_Get_Visitables__ is declared are
\* 0..m without a gap, one overload each; the overload at rank k returns a
\* list of k descriptors, which for k >= 1 is the list of rank k - 1 with one
\* descriptor appended.
C10_AccumulatorLevels ==
  /\ current_type <=> overloads /= {}
  /\ overloads /= {} =>
       LET ranks == DeclaredRanks
           m     == Cardinality(overloads) - 1
       IN  /\ ranks = 0..m
           /\ \A o \in overloads :
                /\ Len(o.ret) = o.rank
                /\ o.rank >= 1 =>
                     (CHOOSE p \in overloads : p.rank = o.rank - 1).ret
                       = SubSeq(o.ret, 1, o.rank - 1)

C10_Witness ==
  /\ status = "complete"
  /\ (maxVisitableRank + 1) \in DeclaredRanks
  /\ list_declared

====
